---- MODULE Spec2Model ----
(***************************************************************************)
(* State-machine model of the iot-blockchain node: the SQLite block store, *)
(* Blockchain.addBlock, the gRPC handlers AddBlock / ReceiveBlock /        *)
(* GetBlockchain, the peer registry, broadcastBlock, syncChain and the     *)
(* consensus rule ConsensusManager.resolveChainConflict.                   *)
(*                                                                         *)
(* Representation of JavaScript values                                     *)
(*   - a string is a natural number code; hex digests are numbers and the  *)
(*     JS comparison of two digests is the comparison of the numbers;      *)
(*   - a block's data is <<"obj", v>> (the parsed payload object v) or     *)
(*     <<"str", v>> (its JSON text).  JSON.stringify and JSON.parse map    *)
(*     between the two; string concatenation turns an object into the text *)
(*     "[object Object]".                                                  *)
(***************************************************************************)
EXTENDS Integers, Sequences, FiniteSets, TLC

(***************************************************************************)
(* Bounds of the model.                                                    *)
(***************************************************************************)
NumNodes == 2
MaxTime == 2
MaxChain == 3
MaxNet == 1
MaxCand == 4
MaxRemotes == 2
NumPayloads == 6

Nodes == 1..NumNodes
Times == 1..MaxTime
\* sensor payloads: JSON objects {sensor_id, value, timestamp}
Payloads == 1..NumPayloads

(***************************************************************************)
(* Strings and hashing.                                                    *)
(***************************************************************************)
\* A digest is a number in 1..HashPrime.  Each part is absorbed by an affine
\* step followed by a cube, a permutation of the residues since HashPrime - 1
\* is not a multiple of 3; no two distinct inputs that occur here have
\* the same digest.  Products are split so that no intermediate value
\* exceeds 2^31.
HashPrime == 1048571
HashBase == 1049
HashSeed == 7019

MulMod(a, b) ==
  (((a * (b \div 1024)) % HashPrime) * 1024 + a * (b % 1024)) % HashPrime

Cube(y) == MulMod(MulMod(y, y), y)

\* createHash('sha256').update(<concatenation of parts>).digest('hex')
RECURSIVE Sha256From(_, _, _)
Sha256From(acc, parts, i) ==
  IF i > Len(parts) THEN acc + 1
  ELSE Sha256From(Cube((acc * HashBase + parts[i] + 1) % HashPrime), parts, i + 1)

Sha256(parts) == Sha256From(HashSeed, parts, 1)

\* the text "[object Object]" that string concatenation makes of an object
ObjectObjectText == 9
\* the JSON text of payload v
JsonText(v) == 10 + v
\* '2023-01-01T00:00:00.000Z'
GenesisTimestamp == 0
\* the payload { message: 'Genesis Block' }
GenesisMessage == 0
\* the payload {sensor_id:"validator-01", value:100, timestamp:...}
SensorPayload == 1
\* the literal '0' used as previousHash of the genesis block
ZeroHash == 0

\* JSON.stringify of an object is its JSON text; of a string, the text in quotes
JSONstringify(d) == IF d[1] = "obj" THEN <<"str", d[2]>> ELSE <<"quoted", d[2]>>
JSONparse(d) == <<"obj", d[2]>>
\* the string JavaScript's + makes of a data value
ToStr(d) ==
  IF d[1] = "str" THEN JsonText(d[2])
  ELSE IF d[1] = "obj" THEN ObjectObjectText
  ELSE 100 + d[2]

\* typeof data === 'object' with string sensor_id, numeric value, string timestamp
IsSensorData(d) == d[1] = "obj" /\ d[2] # GenesisMessage

(***************************************************************************)
(* Block (blockchain.js).                                                  *)
(***************************************************************************)
calculateHash(index, timestamp, data, previousHash) ==
  Sha256(<<index, timestamp, ToStr(JSONstringify(data)), previousHash>>)

Block(index, timestamp, data, previousHash) ==
  [index |-> index, timestamp |-> timestamp, data |-> data,
   previousHash |-> previousHash,
   hash |-> calculateHash(index, timestamp, data, previousHash)]

createGenesisBlock == Block(0, GenesisTimestamp, <<"obj", GenesisMessage>>, ZeroHash)

\* the hash the validators recompute: index + timestamp + data + previousHash
expectedHash(block) ==
  Sha256(<<block.index, block.timestamp, ToStr(block.data), block.previousHash>>)

(***************************************************************************)
(* The table blocks(idx PK, timestamp, data, previousHash, hash).          *)
(* A table is a set of rows; a row keeps data as JSON text.                *)
(***************************************************************************)
RowOf(block) ==
  [index |-> block.index, timestamp |-> block.timestamp,
   data |-> JSONstringify(block.data),
   previousHash |-> block.previousHash, hash |-> block.hash]

_rowToBlock(row) ==
  [index |-> row.index, timestamp |-> row.timestamp, data |-> JSONparse(row.data),
   previousHash |-> row.previousHash, hash |-> row.hash]

\* INSERT INTO blocks: refused on a duplicate idx or a duplicate hash
CanInsert(table, row) ==
  /\ \A r \in table : r.index # row.index
  /\ \A r \in table : r.hash # row.hash

_insertBlock(table, block) == table \cup {RowOf(block)}

RowAt(table, i) == CHOOSE r \in table : r.index = i
HasIdx(table, i) == \E r \in table : r.index = i

\* SELECT MAX(idx)
MaxIdx(table) == CHOOSE i \in {r.index : r \in table} : \A r \in table : r.index <= i

\* SELECT * FROM blocks ORDER BY idx ASC
RECURSIVE RowsAsc(_)
RowsAsc(table) ==
  IF table = {} THEN <<>>
  ELSE LET last == RowAt(table, MaxIdx(table))
       IN  Append(RowsAsc(table \ {last}), last)

\* getLatestBlock on a non-empty table
getLatestBlock(table) == _rowToBlock(RowAt(table, MaxIdx(table)))

\* the rows getChain maps to Blocks
ChainOf(table) ==
  LET rows == RowsAsc(table) IN [i \in 1..Len(rows) |-> _rowToBlock(rows[i])]

\* the consistency loop of getChain: TRUE when it does not throw
getChainOk(table) ==
  LET chain == ChainOf(table)
  IN  \A i \in 2..Len(chain) :
         /\ chain[i].index = i - 1
         /\ chain[i].previousHash = chain[i-1].hash

\* convertChainToProto: data goes over the wire as JSON text
convertChainToProto(chain) ==
  [i \in 1..Len(chain) |->
     [index |-> chain[i].index, timestamp |-> chain[i].timestamp,
      data |-> JSONstringify(chain[i].data),
      hash |-> chain[i].hash, previousHash |-> chain[i].previousHash]]

Hashes(chain) == [i \in 1..Len(chain) |-> chain[i].hash]

(***************************************************************************)
(* ConsensusManager (consensus.js).                                        *)
(***************************************************************************)
validateChain(chain) ==
  /\ Len(chain) > 0
  /\ \A i \in 1..Len(chain) :
       /\ chain[i].index = i - 1
       /\ chain[i].hash = expectedHash(chain[i])
       /\ (i > 1 => chain[i].previousHash = chain[i-1].hash)

calculateChainHash(chain) ==
  IF Len(chain) = 0 THEN 0 ELSE Sha256(Hashes(chain))

\* Array.prototype.sort with (a, b) => b.length - a.length: stable, longest first
RECURSIVE SortByLengthFrom(_, _)
SortByLengthFrom(cands, len) ==
  IF len < 0 THEN <<>>
  ELSE SelectSeq(cands, LAMBDA c : Len(c.chain) = len) \o SortByLengthFrom(cands, len - 1)

LongestLen(cands) ==
  IF Len(cands) = 0 THEN 0
  ELSE CHOOSE n \in {Len(cands[i].chain) : i \in 1..Len(cands)} :
         \A i \in 1..Len(cands) : Len(cands[i].chain) <= n

LongestFirst(cands) == SortByLengthFrom(cands, LongestLen(cands))

\* A candidate is [id, chain]: id 0 is the localChain array itself, id k the
\* k-th element of remoteChains.  The result is the id of the returned array,
\* so that "=== localChain" is identity of the array and not equality of blocks.
resolveChainConflict(localChain, remoteChains) ==
  LET remotes == [k \in 1..Len(remoteChains) |-> [id |-> k, chain |-> remoteChains[k]]]
      validRemoteChains == SelectSeq(remotes, LAMBDA c : Len(c.chain) > 0)
      allChains == <<[id |-> 0, chain |-> localChain]>> \o validRemoteChains
      validChains == LongestFirst(SelectSeq(allChains, LAMBDA c : validateChain(c.chain)))
      longestChain == validChains[1]
      hasSecond == Len(validChains) > 1
      secondLongest == validChains[2]
  IN  IF Len(validRemoteChains) = 0 THEN 0
      ELSE IF Len(validChains) = 0 THEN 0
      ELSE IF longestChain.id = 0 THEN 0
      ELSE IF hasSecond /\ Len(longestChain.chain) > Len(secondLongest.chain) + 2
           THEN longestChain.id
      ELSE IF /\ hasSecond
              /\ Len(longestChain.chain) = Len(secondLongest.chain)
              /\ calculateChainHash(longestChain.chain) > calculateChainHash(secondLongest.chain)
           THEN longestChain.id
      ELSE IF Len(longestChain.chain) > Len(localChain) THEN longestChain.id
      ELSE 0

(***************************************************************************)
(* ChainValidator (merkle-tree.js), as used by syncChain on remote chains. *)
(***************************************************************************)
validateBlock(block, index) ==
  /\ block.index = index
  /\ block.hash = expectedHash(block)

validateChainSimple(chain) ==
  /\ Len(chain) > 0
  /\ \A i \in 1..Len(chain) :
       /\ chain[i].data[1] = "str"
       /\ chain[i].index = i - 1
       /\ chain[i].hash = expectedHash(chain[i])
       /\ (i > 1 => chain[i].previousHash = chain[i-1].hash)

\* MerkleTree.buildNextLevel: pair the nodes, the last one with itself
buildNextLevel(level) ==
  [i \in 1..((Len(level) + 1) \div 2) |->
     Sha256(<<level[2*i - 1], IF 2*i <= Len(level) THEN level[2*i] ELSE level[2*i - 1]>>)]

RECURSIVE buildTreeFromLeaves(_)
buildTreeFromLeaves(leaves) ==
  IF Len(leaves) = 1 THEN leaves[1] ELSE buildTreeFromLeaves(buildNextLevel(leaves))

\* generateProof for the 0-based currentIndex in currentLevel
RECURSIVE generateProofFrom(_, _)
generateProofFrom(currentLevel, currentIndex) ==
  IF Len(currentLevel) <= 1 THEN <<>>
  ELSE LET isRight == currentIndex % 2 = 1
           siblingIndex == IF isRight THEN currentIndex - 1 ELSE currentIndex + 1
           step == IF siblingIndex < Len(currentLevel)
                   THEN <<[hash |-> currentLevel[siblingIndex + 1],
                           position |-> IF isRight THEN "left" ELSE "right"]>>
                   ELSE <<>>
       IN  step \o generateProofFrom(buildNextLevel(currentLevel), currentIndex \div 2)

generateProof(leaves, blockIndex) == generateProofFrom(leaves, blockIndex)

RECURSIVE verifyProofFrom(_, _, _)
verifyProofFrom(currentHash, proof, i) ==
  IF i > Len(proof) THEN currentHash
  ELSE verifyProofFrom(IF proof[i].position = "left"
                       THEN Sha256(<<proof[i].hash, currentHash>>)
                       ELSE Sha256(<<currentHash, proof[i].hash>>),
                       proof, i + 1)

verifyProof(blockHash, proof, root) == verifyProofFrom(blockHash, proof, 1) = root

\* chains shorter than this skip the Merkle proofs in validateChainWithMerkle
MerkleMinLength == 20

validateChainWithMerkle(chain) ==
  /\ Len(chain) > 0
  /\ \A i \in 1..Len(chain) :
       /\ validateBlock(chain[i], i - 1)
       /\ \/ Len(chain) < 4
          \/ Len(chain) < MerkleMinLength
          \/ verifyProof(chain[i].hash, generateProof(Hashes(chain), i - 1),
                         buildTreeFromLeaves(Hashes(chain)))

\* the validation syncChain applies to a remote chain
RemoteChainValid(remoteChain) ==
  /\ Len(remoteChain) > 0
  /\ IF Len(remoteChain) < 4 THEN validateChainSimple(remoteChain)
     ELSE validateChainWithMerkle(remoteChain)

(***************************************************************************)
(* Blockchain.addBlock (blockchain.js).                                    *)
(***************************************************************************)
\* getLatestBlock inserts the genesis block when the table is empty
WithGenesis(table) == IF table = {} THEN {RowOf(createGenesisBlock)} ELSE table

\* addBlock with newIndex = lastBlock.index + 2
NewBlock_skipIndex(table, data, ts) ==
  LET lastBlock == getLatestBlock(WithGenesis(table))
  IN  Block(lastBlock.index + 2, ts, data, lastBlock.hash)

\* the block addBlock builds: next index, current time, link to the latest hash
NewBlock(table, data, ts) ==
  LET lastBlock == getLatestBlock(WithGenesis(table))
  IN  Block(lastBlock.index + 1, ts, data, lastBlock.hash)

\* TRUE when addBlock returns normally
addBlockOk(table, data, ts) ==
  /\ IsSensorData(data)
  /\ CanInsert(WithGenesis(table), RowOf(NewBlock(table, data, ts)))

\* mutant of addBlock: the payload is checked after getLatestBlock, which
\* inserts the genesis block into an empty table
addBlock_validatesAfterLatest(table, data, ts) ==
  IF ~IsSensorData(data) THEN WithGenesis(table)
  ELSE IF addBlockOk(table, data, ts)
       THEN _insertBlock(WithGenesis(table), NewBlock(table, data, ts))
       ELSE WithGenesis(table)

\* the table addBlock leaves behind
addBlock(table, data, ts) ==
  IF ~IsSensorData(data) THEN table
  ELSE IF addBlockOk(table, data, ts)
       THEN _insertBlock(WithGenesis(table), NewBlock(table, data, ts))
       ELSE WithGenesis(table)

(***************************************************************************)
(* adoptConsensusChain (sync.js): delete everything above the genesis row, *)
(* then insert blocks 1..n-1 of the adopted chain one by one; an insert    *)
(* that fails is logged and skipped.  Its statements address the table     *)
(* "block"; the chain is kept in the table "blocks", the only block table  *)
(* initializeDatabase creates, so preparing the DELETE throws "no such     *)
(* table" and the call leaves the chain as it is.                          *)
(***************************************************************************)
\* the tables of blockchain.sqlite
Tables == {"blocks", "chain_metadata"}
\* mutant of AdoptTable: the table the schema creates
AdoptTable_blocks == "blocks"

\* the table adoptConsensusChain deletes from and inserts into
AdoptTable == "block"

WireRow(block) ==
  [index |-> block.index, timestamp |-> block.timestamp, data |-> block.data,
   previousHash |-> block.previousHash, hash |-> block.hash]

RECURSIVE InsertFrom(_, _, _)
InsertFrom(table, chain, i) ==
  IF i > Len(chain) THEN table
  ELSE InsertFrom(IF CanInsert(table, WireRow(chain[i]))
                  THEN table \cup {WireRow(chain[i])} ELSE table,
                  chain, i + 1)

\* adoptConsensusChain with the DELETE addressed to the table blocks and the
\* INSERTs to the table block: every insert fails and is skipped
adoptConsensusChain_deleteFromBlocks(table, consensusChain) ==
  {r \in table : ~(r.index > 0)}

\* TRUE when adoptConsensusChain returns normally
adoptConsensusChainOk == AdoptTable \in Tables

\* the table blocks after the call
adoptConsensusChain(table, consensusChain) ==
  IF ~adoptConsensusChainOk THEN table
  ELSE IF AdoptTable = "blocks"
       THEN InsertFrom({r \in table : ~(r.index > 0)}, consensusChain, 2)
       ELSE table

(***************************************************************************)
(* State.                                                                  *)
(***************************************************************************)
VARIABLES
  now,                \* wall clock, in units of BROADCAST_COOLDOWN
  store,              \* store[n]: the blocks table of node n
  peers,              \* peers[n][p]: node n's PeerDiscovery record of peer p
  lastBroadcastTime,  \* lastBroadcastTime[n] of the admission handler
  net,                \* block RPCs sent and not yet handled
  sync,               \* sync[n]: the syncChain call in progress on node n
  orig,               \* the tables the behaviour started from
  synced,             \* the nodes that have completed a syncChain call
  cLocal, cRemotes, cResult,  \* arguments and result of a consensus run
  isSyncing,          \* isSyncing[n]: the sync lock of the scheduled sync
  syncTimeout,        \* syncTimeout[n]: TRUE while the 5 s lock timer is pending
  calls,              \* calls[n][t]: syncChain calls in progress, by trigger t
  syncStatus,         \* syncStatus[n]: HTTP status of the last POST /sync answer
  leaves, root,       \* the fields of a MerkleTree
  proofIndex,         \* the index the last proof was generated for, or -1
  proofValid,         \* what verifyProof returned for that proof
  proof,              \* how the last generateProof call ended
  chainValid,         \* what the last validateChainWithMerkle call returned
  archive,            \* archive[n]: the table block_archive of node n
  lastPruningTime,    \* lastPruningTime[n] of node n's ChainPruning
  restoreWarnings,    \* restoreWarnings[n]: blocks the last restore failed on
  inconsistent,       \* inconsistent[n]: getChain has thrown on node n
  registered,         \* registered[n]: the keys of node n's peers map
  lastSeen,           \* lastSeen[n][p] of node n's record of peer p
  unhealthySince,     \* when p's present run of failed probes began, or 0
  initPc,             \* initPc[n][c]: where call c of Blockchain.initialize is
  addResult,          \* addResult[n]: how the last direct addBlock call ended
  chainRead,          \* chainRead[n]: how the last getChain call of GET /blockchain ended
  selfPeer,           \* selfPeer[n]: node n's peers entry under its own address
  cycles,             \* cycles[n]: the performScheduledSync calls of node n
  received            \* received[n]: how the last ReceiveBlock call observed went

vars == <<now, store, peers, lastBroadcastTime, net, sync, orig, synced,
          cLocal, cRemotes, cResult, isSyncing, syncTimeout, calls,
          syncStatus, leaves, root, proofIndex, proofValid, proof, chainValid,
          archive, lastPruningTime, restoreWarnings, inconsistent,
          registered, lastSeen, unhealthySince, initPc, addResult, chainRead,
          selfPeer, cycles, received>>
histVars == <<orig, synced>>
sysVars == <<now, store, peers, lastBroadcastTime, net, sync>>
consVars == <<cLocal, cRemotes, cResult>>
lockVars == <<isSyncing, syncTimeout, calls, syncStatus>>
merkleVars == <<leaves, root, proofIndex, proofValid, proof, chainValid>>
pruneVars == <<archive, lastPruningTime, restoreWarnings, inconsistent>>
evictVars == <<registered, lastSeen, unhealthySince>>
bootVars == <<initPc>>
callVars == <<addResult, chainRead, selfPeer, cycles, received>>
afterPruneVars == <<evictVars, bootVars, callVars>>
extVars == <<pruneVars, afterPruneVars>>

NoBlock == [index |-> -1]
Idle == [pc |-> "idle", owner |-> NoBlock, local |-> <<>>, todo |-> <<>>, remotes |-> <<>>]

Others(n) == Nodes \ {n}

\* loadStaticPeers: every peer starts 'unknown' with chainLength 0
NewPeer == [health |-> "unknown", chainLength |-> 0]

\* what starts a syncChain call: the 30 s timer or POST /sync
Triggers == {"timer", "post"}

InitLock ==
  /\ isSyncing = [n \in Nodes |-> FALSE]
  /\ syncTimeout = [n \in Nodes |-> FALSE]
  /\ calls = [n \in Nodes |-> [t \in Triggers |-> 0]]
  /\ syncStatus = [n \in Nodes |-> 0]

\* the MerkleTree constructor: no leaves, root null
NoRoot == -1
\* no generateProof call yet
NoProof == [index |-> -1, raised |-> FALSE, elements |-> <<>>]

InitMerkle ==
  /\ leaves = <<>>
  /\ root = NoRoot
  /\ proofIndex = -1
  /\ proofValid = FALSE
  /\ proof = NoProof
  /\ chainValid = "none"

InitPrune ==
  /\ archive = [n \in Nodes |-> {}]
  /\ lastPruningTime = [n \in Nodes |-> 0]
  /\ restoreWarnings = [n \in Nodes |-> 0]
  /\ inconsistent = [n \in Nodes |-> FALSE]

\* loadStaticPeers: every peer of peers.json is registered, lastSeen now
InitEvict ==
  /\ registered = [n \in Nodes |-> Others(n)]
  /\ lastSeen = [n \in Nodes |-> [p \in Others(n) |-> 1]]
  /\ unhealthySince = [n \in Nodes |-> [p \in Others(n) |-> 0]]

\* the callers of Blockchain.initialize: the constructor and initializeApp
InitCallers == {"constructor", "app"}

\* a node whose initialisation is over
InitBooted == initPc = [n \in Nodes |-> [c \in InitCallers |-> "done"]]

\* no entry under that address in the peers map
NoEntry == [health |-> "absent", chainLength |-> 0]

\* no performScheduledSync call yet: none awaits syncChain, none was started
NoCycles == [running |-> {}, started |-> 0]

\* no ReceiveBlock call observed yet
NotReceived == [duplicate |-> FALSE, reply |-> "none", changed |-> FALSE]

InitCall ==
  /\ addResult = [n \in Nodes |-> "none"]
  /\ chainRead = [n \in Nodes |-> "none"]
  /\ selfPeer = [n \in Nodes |-> NoEntry]
  /\ cycles = [n \in Nodes |-> NoCycles]
  /\ received = [n \in Nodes |-> NotReceived]

InitExt == InitPrune /\ InitEvict /\ InitBooted /\ InitCall

InitSys ==
  /\ InitLock
  /\ InitMerkle
  /\ InitExt
  /\ now = 1
  /\ store = [n \in Nodes |-> {RowOf(createGenesisBlock)}]
  /\ peers = [n \in Nodes |-> [p \in Others(n) |-> NewPeer]]
  /\ lastBroadcastTime = [n \in Nodes |-> 0]
  /\ net = {}
  /\ sync = [n \in Nodes |-> Idle]
  /\ orig = store
  /\ synced = {}

InitCons ==
  /\ cLocal = <<>>
  /\ cRemotes = <<>>
  /\ cResult = -1

Init == InitSys /\ InitCons

\* time passes
Tick ==
  /\ now < MaxTime
  /\ now' = now + 1
  /\ UNCHANGED <<store, peers, lastBroadcastTime, net, sync, consVars, extVars, merkleVars, histVars, lockVars>>

(***************************************************************************)
(* PeerDiscovery.checkPeerHealth (peer-discovery.js).                      *)
(***************************************************************************)
\* GetBlockchain answers with the whole chain unless getChain throws
GetBlockchainOk(p) == getChainOk(store[p])
GetBlockchain(p) == convertChainToProto(ChainOf(store[p]))

checkPeerHealth(n, p) ==
  /\ \/ /\ GetBlockchainOk(p)
        /\ peers' = [peers EXCEPT ![n][p] =
                       [health |-> "healthy", chainLength |-> Len(GetBlockchain(p))]]
     \/ peers' = [peers EXCEPT ![n][p].health = "unhealthy"]
  /\ UNCHANGED <<now, store, lastBroadcastTime, net, sync, consVars, extVars, merkleVars, histVars, lockVars>>

\* getHealthyPeers, in the insertion order of the peers map
RECURSIVE HealthyFrom(_, _)
HealthyFrom(n, p) ==
  IF p > NumNodes THEN <<>>
  ELSE (IF p # n /\ peers[n][p].health = "healthy" THEN <<p>> ELSE <<>>)
       \o HealthyFrom(n, p + 1)

getHealthyPeers(n) == HealthyFrom(n, 1)

(***************************************************************************)
(* broadcastBlock (sync.js) called from POST /add-sensor-data.             *)
(***************************************************************************)
RpcOps == {"AddBlock", "ReceiveBlock"}

protoBlock(block) ==
  [index |-> block.index, timestamp |-> block.timestamp,
   data |-> JSONstringify(block.data),
   hash |-> block.hash, previousHash |-> block.previousHash]

\* the peers broadcastBlock sends the block to
BroadcastTargets(n, block, localLength) ==
  {p \in Others(n) :
      /\ peers[n][p].health = "healthy"
      /\ ~(peers[n][p].chainLength >= localLength)
      /\ ~(peers[n][p].chainLength < block.index - 1)}

\* BROADCAST_COOLDOWN, in the unit the clock counts in
BROADCAST_COOLDOWN == 1

\* the cooldown test with the interval taken as zero
cooldownActive_zeroInterval(n) == now - lastBroadcastTime[n] < 0

\* now - lastBroadcastTime < BROADCAST_COOLDOWN
cooldownActive(n) == now - lastBroadcastTime[n] < BROADCAST_COOLDOWN

\* POST /add-sensor-data: append, then broadcast unless the cooldown is active.
\* A request that is sent may be lost before it reaches the peer.
AddSensorData(n, v) ==
  LET data == <<"obj", v>>
      newBlock == NewBlock(store[n], data, now)
      table == addBlock(store[n], data, now)
      cooldown == cooldownActive(n)
      sends == {[op |-> op, to |-> p, block |-> protoBlock(newBlock)] :
                  op \in RpcOps, p \in BroadcastTargets(n, newBlock, Cardinality(table))}
  IN  /\ Cardinality(store[n]) < MaxChain
      /\ addBlockOk(store[n], data, now)
      /\ store' = [store EXCEPT ![n] = table]
      /\ IF cooldown
         THEN UNCHANGED <<lastBroadcastTime, net>>
         ELSE /\ lastBroadcastTime' = [lastBroadcastTime EXCEPT ![n] = now]
              /\ \E sent \in SUBSET sends :
                   /\ \A m1, m2 \in sent : m1.to = m2.to => m1 = m2
                   /\ Cardinality(net \cup sent) <= MaxNet
                   /\ getChainOk(table) \/ sent = {}
                   /\ net' = net \cup sent
      /\ UNCHANGED <<now, peers, sync, consVars, extVars, merkleVars, histVars, lockVars>>

(***************************************************************************)
(* syncChain (sync.js).  A call reads the local chain, then awaits         *)
(* GetBlockchain from each healthy peer in turn; when the last answer is   *)
(* in it applies the consensus rule and adopts the chosen chain.  owner is *)
(* the ReceiveBlock request that awaits the call, or NoBlock.              *)
(***************************************************************************)
\* the chain syncChain decides for: 0 the local chain, k the k-th remote chain
SyncChoice(proc) ==
  IF Len(proc.remotes) = 0 THEN 0 ELSE resolveChainConflict(proc.local, proc.remotes)

\* SyncResult with a call that gathered no remote chain resetting the table
\* to the genesis block
SyncResult_resetsWithoutRemotes(table, proc) ==
  IF Len(proc.remotes) = 0 THEN {RowOf(createGenesisBlock)}
  ELSE IF SyncChoice(proc) # 0
       THEN adoptConsensusChain(table, proc.remotes[SyncChoice(proc)]) ELSE table

\* what a finished syncChain leaves in the table
SyncResult(table, proc) ==
  IF SyncChoice(proc) # 0
  THEN adoptConsensusChain(table, proc.remotes[SyncChoice(proc)]) ELSE table

\* TRUE when syncChain returns normally, FALSE when it rejects
SyncOk(proc) == SyncChoice(proc) # 0 => adoptConsensusChainOk

\* the re-check of previousHash left out
AfterSyncOk_noRecheck(table, block) == TRUE

\* ReceiveBlock after its await syncChain: re-check previousHash, then append
AfterSyncOk(table, block) == block.previousHash = getLatestBlock(table).hash

AfterSync(table, block) ==
  IF AfterSyncOk(table, block) THEN addBlock(table, JSONparse(block.data), now) ELSE table

\* the table once the call and the handler awaiting it are through; a
\* ReceiveBlock whose syncChain rejects answers 'Invalid previousHash'
Finished(table, proc) ==
  IF proc.owner = NoBlock \/ ~SyncOk(proc) THEN SyncResult(table, proc)
  ELSE AfterSync(SyncResult(table, proc), proc.owner)

\* the scheduled sync, POST /sync
SyncStart(n) ==
  /\ sync[n].pc = "idle"
  /\ getChainOk(store[n])
  /\ IF getHealthyPeers(n) = <<>>
     THEN UNCHANGED sync
     ELSE sync' = [sync EXCEPT ![n] =
                     [pc |-> "fetch", owner |-> NoBlock, local |-> ChainOf(store[n]),
                      todo |-> getHealthyPeers(n), remotes |-> <<>>]]
  /\ UNCHANGED <<now, store, peers, lastBroadcastTime, net, consVars, extVars, merkleVars, histVars, lockVars>>

\* the call once the next peer has answered, or failed to
FetchNext(n, answered) ==
  LET proc == sync[n]
      remoteChain == GetBlockchain(Head(proc.todo))
      got == IF answered /\ RemoteChainValid(remoteChain)
             THEN Append(proc.remotes, remoteChain) ELSE proc.remotes
  IN  [proc EXCEPT !.todo = Tail(proc.todo), !.remotes = got]

\* one GetBlockchain answer (answered) or failure arrives; after the last
\* one the call completes
SyncFetchCore(n, answers) ==
  LET proc == sync[n]
      p == Head(proc.todo)
      done == Len(proc.todo) = 1
  IN  /\ proc.pc = "fetch"
      /\ \E answered \in answers :
           LET next == FetchNext(n, answered)
           IN  /\ answered => GetBlockchainOk(p)
               /\ peers' = IF answered THEN peers
                           ELSE [peers EXCEPT ![n][p].health = "unhealthy"]
               /\ IF done
                  THEN /\ Cardinality(Finished(store[n], next)) <= MaxChain
                       /\ store' = [store EXCEPT ![n] = Finished(store[n], next)]
                       /\ sync' = [sync EXCEPT ![n] = Idle]
                  ELSE /\ sync' = [sync EXCEPT ![n] = next]
                       /\ UNCHANGED store
      /\ UNCHANGED <<now, lastBroadcastTime, net, consVars, extVars, merkleVars>>

\* the same in a call that is not the scheduled sync's: no lock is touched
SyncFetchFrom(n, answers) ==
  /\ SyncFetchCore(n, answers)
  /\ UNCHANGED lockVars

SyncFetch(n) ==
  /\ SyncFetchFrom(n, BOOLEAN)
  /\ UNCHANGED histVars

(***************************************************************************)
(* gRPC handlers (grpc-server.js).                                         *)
(***************************************************************************)
\* AddBlock: an index already stored answers with the chain, anything else
\* goes to addBlock
AddBlockTable(table, block, ts) ==
  IF HasIdx(table, block.index) THEN table
  ELSE addBlock(table, JSONparse(block.data), ts)

AddBlockOk(table, block, ts) ==
  IF HasIdx(table, block.index) THEN getChainOk(table)
  ELSE addBlockOk(table, JSONparse(block.data), ts)

AddBlock(m) ==
  /\ m \in net
  /\ m.op = "AddBlock"
  /\ Cardinality(AddBlockTable(store[m.to], m.block, now)) <= MaxChain
  /\ store' = [store EXCEPT ![m.to] = AddBlockTable(store[m.to], m.block, now)]
  /\ net' = net \ {m}
  /\ UNCHANGED <<now, peers, lastBroadcastTime, sync, consVars, extVars, merkleVars, histVars, lockVars>>

\* ReceiveBlock up to its first await: "ok", "reject", "sync" or "append".
\* The getChain call for the answer on a stored index stands inside the try
\* of the lookup: when it throws, the empty catch takes the handler on to the
\* sequence checks.
ReceiveBlockStep(table, block) ==
  LET latest == getLatestBlock(WithGenesis(table))
  IN  IF block.hash # expectedHash(block) THEN "reject"
      ELSE IF /\ HasIdx(WithGenesis(table), block.index)
              /\ getChainOk(WithGenesis(table)) THEN "ok"
      ELSE IF block.index > latest.index + 2 THEN "reject"
      ELSE IF block.previousHash # latest.hash THEN "sync"
      ELSE "append"

ReceiveBlock(m) ==
  LET n == m.to
      block == m.block
      table == WithGenesis(store[n])
      step == ReceiveBlockStep(store[n], block)
      awaits == step = "sync" /\ getChainOk(table) /\ getHealthyPeers(n) # <<>>
      after == IF step = "append" THEN addBlock(table, JSONparse(block.data), now)
               ELSE table
  IN  /\ m \in net
      /\ m.op = "ReceiveBlock"
      /\ step = "sync" => sync[n].pc = "idle"
      /\ Cardinality(after) <= MaxChain
      /\ store' = [store EXCEPT ![n] = after]
      /\ net' = net \ {m}
      /\ IF awaits
         THEN sync' = [sync EXCEPT ![n] =
                         [pc |-> "fetch", owner |-> block, local |-> ChainOf(table),
                          todo |-> getHealthyPeers(n), remotes |-> <<>>]]
         ELSE UNCHANGED sync
      /\ UNCHANGED <<now, peers, lastBroadcastTime, consVars, extVars, merkleVars, histVars, lockVars>>

\* a request that times out or is lost
Lose(m) ==
  /\ m \in net
  /\ net' = net \ {m}
  /\ UNCHANGED <<now, store, peers, lastBroadcastTime, sync, consVars, extVars, merkleVars, histVars, lockVars>>

Next ==
  \/ Tick
  \/ \E n \in Nodes : \E p \in Others(n) : checkPeerHealth(n, p)
  \/ \E n \in Nodes : AddSensorData(n, SensorPayload)
  \/ \E n \in Nodes : SyncStart(n)
  \/ \E n \in Nodes : SyncFetch(n)
  \/ \E m \in net : AddBlock(m)
  \/ \E m \in net : ReceiveBlock(m)
  \/ \E m \in net : Lose(m)

Spec == Init /\ [][Next]_vars

(***************************************************************************)
(* Local appends only: a node that admits sensor data of several kinds and *)
(* exchanges nothing with its peers.                                       *)
(***************************************************************************)
NextAppend ==
  \/ Tick
  \/ \E v \in Payloads : AddSensorData(1, v)

SpecAppend == Init /\ [][NextAppend]_vars

(***************************************************************************)
(* The tables a node can hold after a sequence of appends.                 *)
(***************************************************************************)
RECURSIVE TablesUpTo(_)
TablesUpTo(len) ==
  IF len <= 1 THEN {{RowOf(createGenesisBlock)}}
  ELSE LET shorter == TablesUpTo(len - 1)
       IN  shorter \cup
           UNION {{addBlock(t, <<"obj", SensorPayload>>, ts) :
                     ts \in {x \in Times : \A r \in t : r.timestamp <= x}} :
                  t \in {u \in shorter : Cardinality(u) = len - 1}}

\* the genesis block of a node of the first version, first started at time 1
LegacyGenesis == Block(0, 1, <<"obj", GenesisMessage>>, ZeroHash)

RECURSIVE TablesFrom(_, _)
TablesFrom(genesis, len) ==
  IF len <= 1 THEN {{RowOf(genesis)}}
  ELSE LET shorter == TablesFrom(genesis, len - 1)
       IN  shorter \cup
           UNION {{addBlock(t, <<"obj", SensorPayload>>, ts) :
                     ts \in {x \in Times : \A r \in t : r.timestamp <= x}} :
                  t \in {u \in shorter : Cardinality(u) = len - 1}}

PeerTables == TablesUpTo(MaxCand) \cup TablesFrom(LegacyGenesis, MaxCand)

(***************************************************************************)
(* A MerkleTree on its own: buildTree on the blocks of a chain, then       *)
(* generateProof for one of its blocks and verifyProof of that proof       *)
(* against getRoot().                                                      *)
(***************************************************************************)
MaxLeaves == 9

\* mutant of TreeOf: a single leaf is paired with itself like the last node
\* of an odd level
TreeOf_singleLeafPaired(blocks) ==
  IF Len(blocks) = 0 THEN [leaves |-> leaves, root |-> NoRoot]
  ELSE [leaves |-> Hashes(blocks), root |-> buildTreeFromLeaves(buildNextLevel(Hashes(blocks)))]

\* the fields buildTree leaves behind: on an empty list root is null and
\* leaves stays what it was
TreeOf(blocks) ==
  IF Len(blocks) = 0 THEN [leaves |-> leaves, root |-> NoRoot]
  ELSE [leaves |-> Hashes(blocks), root |-> buildTreeFromLeaves(Hashes(blocks))]

buildTree(blocks) ==
  /\ leaves' = TreeOf(blocks).leaves
  /\ root' = TreeOf(blocks).root
  /\ proofIndex' = -1
  /\ proofValid' = FALSE
  /\ proof' = NoProof
  /\ UNCHANGED <<sysVars, consVars, extVars, histVars, lockVars, chainValid>>

\* generateProof(blockIndex): throws when blockIndex >= this.leaves.length
generateProofCall(blockIndex) ==
  /\ proof' = IF blockIndex >= Len(leaves)
              THEN [index |-> blockIndex, raised |-> TRUE, elements |-> <<>>]
              ELSE [index |-> blockIndex, raised |-> FALSE,
                    elements |-> generateProof(leaves, blockIndex)]
  /\ UNCHANGED <<sysVars, consVars, extVars, histVars, lockVars, leaves, root,
                 proofIndex, proofValid, chainValid>>

\* a chain whose last block points at a hash that is not its predecessor's
\* and carries the hash of its own contents
BreakLink(chain) ==
  LET last == [chain[Len(chain)] EXCEPT !.previousHash = ZeroHash]
  IN  [chain EXCEPT ![Len(chain)] = [last EXCEPT !.hash = expectedHash(last)]]

\* the chains a ChainValidator is handed: none, chains as peers serve them,
\* grown from the canonical or from another genesis block, links intact or not
ValidatorChains ==
  LET served == {convertChainToProto(ChainOf(t)) : t \in PeerTables}
  IN  {<<>>} \cup served \cup {BreakLink(c) : c \in {x \in served : Len(x) > 1}}

\* chainValidator.validateChainWithMerkle(chain): false on an empty chain,
\* otherwise buildTree and the loop over the blocks
validateChainWithMerkleCall(chain) ==
  /\ chainValid' = IF Len(chain) > 0 /\ validateChainWithMerkle(chain)
                   THEN "true" ELSE "false"
  /\ IF Len(chain) = 0 THEN UNCHANGED <<leaves, root, proof>>
     ELSE /\ leaves' = TreeOf(chain).leaves
          /\ root' = TreeOf(chain).root
          /\ proof' = NoProof
  /\ UNCHANGED <<sysVars, consVars, extVars, histVars, lockVars, proofIndex, proofValid>>

\* merkleTree.verifyProof(blocks[i].hash, merkleTree.generateProof(i),
\* merkleTree.getRoot())
CheckProof(blockIndex) ==
  /\ root # NoRoot
  /\ blockIndex < Len(leaves)
  /\ proofIndex' = blockIndex
  /\ proofValid' = verifyProof(leaves[blockIndex + 1],
                               generateProof(leaves, blockIndex), root)
  /\ UNCHANGED <<sysVars, consVars, extVars, histVars, lockVars, leaves, root,
                 proof, chainValid>>

NextMerkle ==
  \/ \E table \in TablesUpTo(MaxLeaves) : buildTree(ChainOf(table))
  \/ \E blockIndex \in 0..(MaxLeaves - 1) : CheckProof(blockIndex)

SpecMerkle == Init /\ [][NextMerkle]_vars

\* A ChainValidator and its MerkleTree on short inputs: buildTree on lists
\* of at most MaxSmallTree blocks, the empty list included, generateProof
\* for indices inside and outside the tree, validateChainWithMerkle.
MaxSmallTree == 2

NextValidator ==
  \/ \E table \in TablesUpTo(MaxSmallTree) : buildTree(ChainOf(table))
  \/ buildTree(<<>>)
  \/ \E blockIndex \in 0..MaxSmallTree : generateProofCall(blockIndex)
  \/ \E chain \in ValidatorChains : validateChainWithMerkleCall(chain)

SpecValidator == Init /\ [][NextValidator]_vars

(***************************************************************************)
(* A consensus run on its own: resolveChainConflict applied to a local     *)
(* chain as getChain returns it and to remote chains as GetBlockchain      *)
(* delivers them, intact or with a block altered in transit.               *)
(***************************************************************************)
Tamper(chain) ==
  [chain EXCEPT ![Len(chain)].timestamp = chain[Len(chain)].timestamp + 1]

LocalChains == {ChainOf(t) : t \in TablesUpTo(MaxCand)}
WireChains == {convertChainToProto(c) : c \in LocalChains}
RemoteChainChoices == WireChains \cup {Tamper(c) : c \in WireChains}

InitConsensus ==
  /\ InitSys
  /\ cLocal \in LocalChains
  /\ cRemotes \in UNION {[1..k -> RemoteChainChoices] : k \in 0..MaxRemotes}
  /\ cResult = -1

ResolveConflict ==
  /\ cResult = -1
  /\ cResult' = resolveChainConflict(cLocal, cRemotes)
  /\ UNCHANGED <<sysVars, histVars, lockVars, merkleVars, extVars, cLocal, cRemotes>>

SpecConsensus == InitConsensus /\ [][ResolveConflict]_vars

(***************************************************************************)
(* Quiescence: nothing is appended any more, every node sees every other   *)
(* node as healthy, every GetBlockchain is answered, and the 30 s timer    *)
(* keeps starting syncChain on every node.                                 *)
(***************************************************************************)
InitQuiet ==
  /\ InitCons
  /\ InitLock
  /\ InitMerkle
  /\ InitExt
  /\ now = MaxTime
  /\ store \in [Nodes -> TablesUpTo(MaxChain)]
  /\ peers = [n \in Nodes |-> [p \in Others(n) |->
                [health |-> "healthy", chainLength |-> Cardinality(store[p])]]]
  /\ lastBroadcastTime = [n \in Nodes |-> 0]
  /\ net = {}
  /\ sync = [n \in Nodes |-> Idle]
  /\ orig = store
  /\ synced = {}

\* a step of syncChain in which the peer answers
SyncFetchQuiet(n) ==
  /\ SyncFetchFrom(n, {TRUE})
  /\ synced' = IF sync'[n].pc = "idle" THEN synced \cup {n} ELSE synced
  /\ UNCHANGED orig

NextQuiet ==
  \/ \E n \in Nodes : SyncStart(n)
  \/ \E n \in Nodes : SyncFetchQuiet(n)

SpecQuiet ==
  /\ InitQuiet
  /\ [][NextQuiet]_vars
  /\ \A n \in Nodes : WF_vars(SyncStart(n)) /\ WF_vars(SyncFetchQuiet(n))

(***************************************************************************)
(* Catching up: node 1 runs syncChain against its one peer, node 2, which  *)
(* it sees as healthy and which serves a chain of its own.  The peer may   *)
(* be a node of the first version of blockchain.js, whose genesis block    *)
(* carries the time the node was first started.                            *)
(***************************************************************************)
InitCatchUp ==
  /\ InitCons
  /\ InitLock
  /\ InitMerkle
  /\ InitExt
  /\ now = MaxTime
  /\ \E local \in TablesUpTo(MaxChain) : \E served \in PeerTables :
        store = [n \in Nodes |-> IF n = 1 THEN local ELSE served]
  /\ peers = [n \in Nodes |-> [p \in Others(n) |->
                [health |-> "healthy", chainLength |-> Cardinality(store[p])]]]
  /\ lastBroadcastTime = [n \in Nodes |-> 0]
  /\ net = {}
  /\ sync = [n \in Nodes |-> Idle]
  /\ orig = store
  /\ synced = {}

NextCatchUp ==
  \/ SyncStart(1)
  \/ SyncFetchQuiet(1)

SpecCatchUp ==
  /\ InitCatchUp
  /\ [][NextCatchUp]_vars
  /\ WF_vars(SyncStart(1)) /\ WF_vars(SyncFetchQuiet(1))

(***************************************************************************)
(* The sync lock (isSyncing, syncTimeout, clearSyncLock,                   *)
(* performScheduledSync) and POST /sync, on nodes that see no healthy      *)
(* peer: every syncChain call finds no remote chain and returns.  A call   *)
(* is in progress from the step that starts it to the step in which it     *)
(* returns.                                                                *)
(***************************************************************************)
MaxCalls == 2

\* Whether a syncChain call that finds no healthy peer returns.  The
\* repository holds two syncChain: the one of src/sync.js returns ('No valid
\* remote chains available'), the other one, which Blockchain.initialize's
\* catch is written for, throws 'No healthy peers available' and rethrows it
\* from its catch.  The sources do not fix which one a node loads.
NoPeersReturns == {TRUE, FALSE}

\* a syncChain call that met no healthy peer
NoPeersCall(n) == [Idle EXCEPT !.local = ChainOf(store[n])]

\* clearSyncLock with isSyncing left as it is
clearSyncLock_keepsLock(n) ==
  /\ isSyncing' = isSyncing
  /\ syncTimeout' = [syncTimeout EXCEPT ![n] = FALSE]

clearSyncLock(n) ==
  /\ isSyncing' = [isSyncing EXCEPT ![n] = FALSE]
  /\ syncTimeout' = [syncTimeout EXCEPT ![n] = FALSE]

\* the 30 s timer fires: performScheduledSync up to its await syncChain
performScheduledSync(n) ==
  /\ getChainOk(store[n])
  /\ IF isSyncing[n]
     THEN UNCHANGED lockVars
     ELSE /\ calls[n]["timer"] < MaxCalls
          /\ isSyncing' = [isSyncing EXCEPT ![n] = TRUE]
          /\ syncTimeout' = [syncTimeout EXCEPT ![n] = TRUE]
          /\ calls' = [calls EXCEPT ![n]["timer"] = @ + 1]
          /\ UNCHANGED syncStatus
  /\ UNCHANGED <<sysVars, consVars, extVars, merkleVars, histVars>>

\* the syncChain call of a scheduled sync returns: finally clearSyncLock
ScheduledSyncDone(n) ==
  /\ calls[n]["timer"] > 0
  /\ calls' = [calls EXCEPT ![n]["timer"] = @ - 1]
  /\ clearSyncLock(n)
  /\ store' = [store EXCEPT ![n] = SyncResult(store[n], NoPeersCall(n))]
  /\ UNCHANGED <<now, peers, lastBroadcastTime, net, sync, consVars, extVars, merkleVars, histVars,
                 syncStatus>>

\* the 5 s timer set by performScheduledSync fires
SyncLockTimeout(n) ==
  /\ syncTimeout[n]
  /\ clearSyncLock(n)
  /\ UNCHANGED <<sysVars, consVars, extVars, merkleVars, histVars, calls, syncStatus>>

\* POST /sync up to its await syncChain
PostSync(n) ==
  /\ getChainOk(store[n])
  /\ calls[n]["post"] < MaxCalls
  /\ calls' = [calls EXCEPT ![n]["post"] = @ + 1]
  /\ UNCHANGED <<sysVars, consVars, extVars, merkleVars, histVars, isSyncing, syncTimeout,
                 syncStatus>>

\* the syncChain call of a POST /sync ends: 200 when it returned, 500 from
\* the handler's catch when it threw
PostSyncDone(n) ==
  /\ calls[n]["post"] > 0
  /\ calls' = [calls EXCEPT ![n]["post"] = @ - 1]
  /\ store' = [store EXCEPT ![n] = SyncResult(store[n], NoPeersCall(n))]
  /\ \E returned \in NoPeersReturns :
       syncStatus' = [syncStatus EXCEPT ![n] = IF returned THEN 200 ELSE 500]
  /\ UNCHANGED <<now, peers, lastBroadcastTime, net, sync, consVars, extVars, merkleVars, histVars,
                 isSyncing, syncTimeout>>

NextLock ==
  \/ \E n \in Nodes : performScheduledSync(n)
  \/ \E n \in Nodes : ScheduledSyncDone(n)
  \/ \E n \in Nodes : SyncLockTimeout(n)
  \/ \E n \in Nodes : PostSync(n)
  \/ \E n \in Nodes : PostSyncDone(n)

\* timers fire and every syncChain call returns
SpecLock ==
  /\ Init
  /\ [][NextLock]_vars
  /\ \A n \in Nodes : /\ WF_vars(ScheduledSyncDone(n))
                       /\ WF_vars(SyncLockTimeout(n))
                       /\ WF_vars(PostSyncDone(n))

(***************************************************************************)
(* ChainPruning (chain-pruning.js) on node 1, which holds a chain of any   *)
(* length up to MaxPruneChain: POST /prune/chain and the 6 h timer call    *)
(* pruneChain, POST /prune/restore calls restoreArchivedBlocks, and the    *)
(* node goes on appending.  The thresholds are scaled to the chain lengths *)
(* the model reaches: pruningThreshold is 1000 and the least pruneIndex    *)
(* 100 in the source; as there, a chain longer than the threshold always   *)
(* has a pruneIndex above the least one.                                   *)
(***************************************************************************)
MaxPruneChain == 7
pruningThreshold == 4
MinPruneIndex == 2
archiveInterval == 1

\* the table of 'UPDATE ... SET previousHash' in pruneChain
PruneUpdateTable == "block"
\* the table restoreArchivedBlocks inserts into
RestoreTable == "block"

\* lastPruningTime = 0 stands for the epoch, more than archiveInterval ago
shouldPrune(n) ==
  /\ Len(ChainOf(store[n])) > pruningThreshold
  /\ lastPruningTime[n] = 0 \/ now - lastPruningTime[n] > archiveInterval

\* Math.floor(chain.length * 0.8)
pruneIndexOf(length) == (length * 8) \div 10

ArchiveRow(row, archiveTime) ==
  [index |-> row.index, timestamp |-> row.timestamp, data |-> row.data,
   previousHash |-> row.previousHash, hash |-> row.hash, archived_at |-> archiveTime]

BlockRow(archived) ==
  [index |-> archived.index, timestamp |-> archived.timestamp, data |-> archived.data,
   previousHash |-> archived.previousHash, hash |-> archived.hash]

\* archiveBlocks: an insert on an idx the archive already holds fails and is
\* skipped
archiveBlocks(arch, table, upToIndex, archiveTime) ==
  arch \cup {ArchiveRow(r, archiveTime) :
               r \in {x \in table : x.index < upToIndex /\ ~HasIdx(arch, x.index)}}

\* DELETE FROM blocks WHERE idx <= ?
deleteArchived_inclusive(table, pruneIndex) == {r \in table : ~(r.index <= pruneIndex)}

\* DELETE FROM blocks WHERE idx < ?
deleteArchived(table, pruneIndex) == {r \in table : ~(r.index < pruneIndex)}

\* pruneChain.  shouldPrune calls getChain outside the try: when that throws
\* the call rejects.  The UPDATE on the table block throws 'no such table'
\* into the catch, after the archive and the DELETE are done and before
\* lastPruningTime is set.
pruneChain(n) ==
  LET table == store[n]
      pruneIndex == pruneIndexOf(Len(ChainOf(table)))
  IN  /\ IF ~getChainOk(table)
         THEN /\ inconsistent' = [inconsistent EXCEPT ![n] = TRUE]
              /\ UNCHANGED <<store, archive, lastPruningTime>>
         ELSE IF ~shouldPrune(n) \/ pruneIndex < MinPruneIndex
         THEN UNCHANGED <<store, archive, lastPruningTime, inconsistent>>
         ELSE /\ archive' = [archive EXCEPT ![n] =
                               archiveBlocks(archive[n], table, pruneIndex, now)]
              /\ store' = [store EXCEPT ![n] = deleteArchived(table, pruneIndex)]
              /\ lastPruningTime' = IF PruneUpdateTable \in Tables
                                    THEN [lastPruningTime EXCEPT ![n] = now]
                                    ELSE lastPruningTime
              /\ UNCHANGED inconsistent
      /\ UNCHANGED <<now, peers, lastBroadcastTime, net, sync, consVars, histVars,
                     lockVars, merkleVars, afterPruneVars, restoreWarnings>>

\* restoreArchivedBlocks: every archived block with no row in blocks is
\* inserted into RestoreTable; an insert that throws is logged and skipped
restoreArchivedBlocks(n) ==
  LET missing == {a \in archive[n] : ~HasIdx(store[n], a.index)}
      restored == {BlockRow(a) : a \in {x \in missing : RestoreTable = "blocks"}}
  IN  /\ store' = [store EXCEPT ![n] = store[n] \cup restored]
      /\ restoreWarnings' = [restoreWarnings EXCEPT ![n] =
                               Cardinality(missing) - Cardinality(restored)]
      /\ UNCHANGED <<now, peers, lastBroadcastTime, net, sync, consVars, histVars,
                     lockVars, merkleVars, afterPruneVars, archive, lastPruningTime, inconsistent>>

\* POST /add-sensor-data without its broadcast: addBlock, then getChain for
\* the chainLength of the answer
AppendAndRead(n) ==
  LET data == <<"obj", SensorPayload>>
      table == addBlock(store[n], data, now)
  IN  /\ MaxIdx(WithGenesis(store[n])) < MaxPruneChain - 1
      /\ addBlockOk(store[n], data, now)
      /\ store' = [store EXCEPT ![n] = table]
      /\ inconsistent' = [inconsistent EXCEPT ![n] = @ \/ ~getChainOk(table)]
      /\ UNCHANGED <<now, peers, lastBroadcastTime, net, sync, consVars, histVars,
                     lockVars, merkleVars, afterPruneVars, archive, lastPruningTime, restoreWarnings>>

\* a getChain call whose caller hands on what it gets: the chain returned or
\* the error raised
getChainCall(n) ==
  /\ chainRead' = [chainRead EXCEPT ![n] =
                     IF getChainOk(store[n]) THEN "returned" ELSE "raised"]
  /\ inconsistent' = [inconsistent EXCEPT ![n] = @ \/ ~getChainOk(store[n])]
  /\ UNCHANGED <<sysVars, consVars, histVars, lockVars, merkleVars, evictVars, bootVars,
                 archive, lastPruningTime, restoreWarnings, addResult, selfPeer, cycles, received>>

InitPruning ==
  /\ InitCons
  /\ InitLock
  /\ InitMerkle
  /\ InitExt
  /\ now = MaxTime
  /\ \E local \in TablesUpTo(MaxPruneChain) :
        store = [n \in Nodes |-> IF n = 1 THEN local ELSE {RowOf(createGenesisBlock)}]
  /\ peers = [n \in Nodes |-> [p \in Others(n) |-> NewPeer]]
  /\ lastBroadcastTime = [n \in Nodes |-> 0]
  /\ net = {}
  /\ sync = [n \in Nodes |-> Idle]
  /\ orig = store
  /\ synced = {}

NextPruning ==
  \/ pruneChain(1)
  \/ restoreArchivedBlocks(1)
  \/ AppendAndRead(1)
  \/ getChainCall(1)

SpecPruning == InitPruning /\ [][NextPruning]_vars

(***************************************************************************)
(* ReceiveBlock on the pruning node, for every block of every chain a node *)
(* can hold: blocks it has stored itself and blocks of rival chains.  The  *)
(* node sees no healthy peer, so the syncChain call the handler makes on a *)
(* previousHash mismatch changes nothing and the handler answers with an   *)
(* error.  received[n] keeps whether the block came with a valid hash and  *)
(* a stored index, how the handler went and whether the table changed.     *)
(***************************************************************************)
DeliveredBlocks ==
  {protoBlock(_rowToBlock(r)) : r \in UNION TablesUpTo(MaxPruneChain)}

ReceiveBlockCall(n, block) ==
  LET table == WithGenesis(store[n])
      step == ReceiveBlockStep(store[n], block)
      after == IF step = "append" THEN addBlock(table, JSONparse(block.data), now)
               ELSE table
  IN  /\ Cardinality(after) <= MaxPruneChain
      /\ store' = [store EXCEPT ![n] = after]
      /\ received' = [received EXCEPT ![n] =
                        [duplicate |-> /\ block.hash = expectedHash(block)
                                       /\ HasIdx(store[n], block.index),
                         reply |-> step,
                         changed |-> after # store[n]]]
      /\ UNCHANGED <<now, peers, lastBroadcastTime, net, sync, consVars, histVars,
                     lockVars, merkleVars, pruneVars, evictVars, bootVars,
                     addResult, chainRead, selfPeer, cycles>>

NextRedelivery ==
  \/ pruneChain(1)
  \/ \E block \in DeliveredBlocks : ReceiveBlockCall(1, block)

SpecRedelivery == InitPruning /\ [][NextRedelivery]_vars

(***************************************************************************)
(* PeerDiscovery.healthCheck with its eviction of unhealthy peers.  Here   *)
(* the clock counts in units of discoveryInterval (1 minute); a probe ends *)
(* within healthTimeout (10 s), inside the unit it began in.               *)
(***************************************************************************)
MaxEvictTime == 8
\* unhealthyTimeout, 5 minutes
unhealthyTimeout == 5

\* the discovery interval passes
Elapse ==
  /\ now < MaxEvictTime
  /\ now' = now + 1
  /\ UNCHANGED <<store, peers, lastBroadcastTime, net, sync, consVars, histVars,
                 lockVars, merkleVars, pruneVars, evictVars, bootVars, callVars>>

\* removeUnhealthyPeers on the records rec with lastSeen times seen
removeUnhealthyPeers(keys, rec, seen) ==
  {p \in keys : ~(rec[p].health = "unhealthy" /\ now - seen[p] > unhealthyTimeout)}

\* healthCheck: probe every registered peer (answered[p] tells whether p's
\* GetBlockchain answers in time), then removeUnhealthyPeers
healthCheck(n) ==
  \E answered \in [Others(n) -> BOOLEAN] :
    LET probed == registered[n]
        rec == [p \in Others(n) |->
                  IF p \notin probed THEN peers[n][p]
                  ELSE IF answered[p] /\ GetBlockchainOk(p)
                       THEN [health |-> "healthy", chainLength |-> Len(GetBlockchain(p))]
                       ELSE [peers[n][p] EXCEPT !.health = "unhealthy"]]
        seen == [p \in Others(n) |-> IF p \in probed THEN now ELSE lastSeen[n][p]]
    IN  /\ peers' = [peers EXCEPT ![n] = rec]
        /\ lastSeen' = [lastSeen EXCEPT ![n] = seen]
        /\ unhealthySince' = [unhealthySince EXCEPT ![n] =
               [p \in Others(n) |->
                  IF p \notin probed THEN unhealthySince[n][p]
                  ELSE IF rec[p].health # "unhealthy" THEN 0
                  ELSE IF unhealthySince[n][p] = 0 THEN now ELSE unhealthySince[n][p]]]
        /\ registered' = [registered EXCEPT ![n] = removeUnhealthyPeers(probed, rec, seen)]
        /\ UNCHANGED <<now, store, lastBroadcastTime, net, sync, consVars, histVars,
                       lockVars, merkleVars, pruneVars, bootVars, callVars>>

NextEvict ==
  \/ Elapse
  \/ \E n \in Nodes : healthCheck(n)

SpecEvict == Init /\ [][NextEvict]_vars

(***************************************************************************)
(* Start of a node on an empty database with no peer in reach.  new        *)
(* Blockchain() calls initialize() without awaiting it, then initializeApp *)
(* awaits initialize() again; each call counts the rows, awaits syncChain  *)
(* when there are none and, when syncChain throws, inserts the genesis     *)
(* block from its catch.                                                   *)
(***************************************************************************)
InitEmpty ==
  /\ InitCons /\ InitLock /\ InitMerkle /\ InitPrune /\ InitEvict /\ InitCall
  /\ initPc = [n \in Nodes |-> [c \in InitCallers |-> "start"]]
  /\ now = 1
  /\ store = [n \in Nodes |-> {}]
  /\ peers = [n \in Nodes |-> [p \in Others(n) |-> NewPeer]]
  /\ lastBroadcastTime = [n \in Nodes |-> 0]
  /\ net = {}
  /\ sync = [n \in Nodes |-> Idle]
  /\ orig = store
  /\ synced = {}

\* initialize up to its await: SELECT COUNT(*), then syncChain on no rows
initializeStart(n, c) ==
  /\ initPc[n][c] = "start"
  /\ c = "app" => initPc[n]["constructor"] # "start"
  /\ initPc' = [initPc EXCEPT ![n][c] = IF store[n] = {} THEN "sync" ELSE "done"]
  /\ UNCHANGED <<sysVars, consVars, histVars, lockVars, merkleVars, pruneVars, evictVars, callVars>>

\* the awaited syncChain ends: when it returned, initialize returns; when it
\* threw, the catch inserts the genesis block, and an insert that fails on
\* the primary key makes initialize reject
initializeEnd(n, c) ==
  /\ initPc[n][c] = "sync"
  /\ \E returned \in NoPeersReturns :
       IF returned
       THEN /\ initPc' = [initPc EXCEPT ![n][c] = "done"]
            /\ UNCHANGED store
       ELSE IF CanInsert(store[n], RowOf(createGenesisBlock))
       THEN /\ initPc' = [initPc EXCEPT ![n][c] = "done"]
            /\ store' = [store EXCEPT ![n] = _insertBlock(store[n], createGenesisBlock)]
       ELSE /\ initPc' = [initPc EXCEPT ![n][c] = "failed"]
            /\ UNCHANGED store
  /\ UNCHANGED <<now, peers, lastBroadcastTime, net, sync, consVars, histVars,
                 lockVars, merkleVars, pruneVars, evictVars, callVars>>

NextBoot ==
  \/ \E n \in Nodes : \E c \in InitCallers : initializeStart(n, c)
  \/ \E n \in Nodes : \E c \in InitCallers : initializeEnd(n, c)

SpecBoot == InitEmpty /\ [][NextBoot]_vars

(***************************************************************************)
(* Blockchain.addBlock called on its own, with any value the callers can   *)
(* hand it: a sensor reading, an object without the sensor fields, a       *)
(* string, null.                                                           *)
(***************************************************************************)
BlockDatas ==
  {<<"obj", SensorPayload>>, <<"obj", GenesisMessage>>, <<"str", SensorPayload>>,
   <<"null", 0>>}

\* blockchain.addBlock(data) on node n
addBlockCall(n, data) ==
  /\ Cardinality(addBlock(store[n], data, now)) <= MaxChain
  /\ store' = [store EXCEPT ![n] = addBlock(store[n], data, now)]
  /\ addResult' = [addResult EXCEPT ![n] =
                     IF addBlockOk(store[n], data, now) THEN "ok" ELSE "error"]
  /\ UNCHANGED <<now, peers, lastBroadcastTime, net, sync, consVars, histVars,
                 lockVars, merkleVars, pruneVars, evictVars, bootVars, chainRead, selfPeer, cycles, received>>

InitAddBlock ==
  /\ InitCons /\ InitLock /\ InitMerkle /\ InitExt
  /\ now = MaxTime
  /\ store \in [Nodes -> TablesUpTo(MaxChain) \cup {{}}]
  /\ peers = [n \in Nodes |-> [p \in Others(n) |-> NewPeer]]
  /\ lastBroadcastTime = [n \in Nodes |-> 0]
  /\ net = {}
  /\ sync = [n \in Nodes |-> Idle]
  /\ orig = store
  /\ synced = {}

NextAddBlock == \E n \in Nodes : \E data \in BlockDatas : addBlockCall(n, data)

SpecAddBlock == InitAddBlock /\ [][NextAddBlock]_vars

(***************************************************************************)
(* The scheduled sync with its 5 s watchdog, on a node that sees a healthy *)
(* peer.  One cycle at a time is followed: performScheduledSync takes the  *)
(* lock, arms the timer and calls syncChain; the timer, when it fires      *)
(* first, runs clearSyncLock and nothing else; the cycle ends in the       *)
(* finally of performScheduledSync.                                        *)
(***************************************************************************)
\* performScheduledSync up to the first await of its syncChain call
scheduledSyncStart(n) ==
  /\ ~isSyncing[n]
  /\ sync[n].pc = "idle"
  /\ getChainOk(store[n])
  /\ getHealthyPeers(n) # <<>>
  /\ isSyncing' = [isSyncing EXCEPT ![n] = TRUE]
  /\ syncTimeout' = [syncTimeout EXCEPT ![n] = TRUE]
  /\ sync' = [sync EXCEPT ![n] =
                [pc |-> "fetch", owner |-> NoBlock, local |-> ChainOf(store[n]),
                 todo |-> getHealthyPeers(n), remotes |-> <<>>]]
  /\ UNCHANGED <<now, store, peers, lastBroadcastTime, net, consVars, extVars,
                 merkleVars, histVars, calls, syncStatus>>

\* a step of the cycle's syncChain; the step that ends it runs the finally
scheduledSyncStep(n) ==
  /\ SyncFetchCore(n, BOOLEAN)
  /\ IF sync'[n].pc = "idle" THEN clearSyncLock(n)
     ELSE UNCHANGED <<isSyncing, syncTimeout>>
  /\ UNCHANGED <<histVars, calls, syncStatus>>

NextWatchdog ==
  \/ scheduledSyncStart(1)
  \/ SyncLockTimeout(1)
  \/ scheduledSyncStep(1)

SpecWatchdog == InitCatchUp /\ [][NextWatchdog]_vars

(***************************************************************************)
(* The scheduled syncs of one node told apart: the 30 s timer calls        *)
(* performScheduledSync whether or not the syncChain call of an earlier    *)
(* cycle has returned, and isSyncing, syncTimeout and clearSyncLock are    *)
(* shared by all of them.  cycles[n].started numbers the cycles that took  *)
(* the lock, cycles[n].running holds those whose syncChain call has not    *)
(* returned.  The cycle that set isSyncing and armed the timer last is the *)
(* one started last.                                                       *)
(***************************************************************************)
MaxCycles == 3

\* the 30 s timer fires: performScheduledSync up to its await syncChain
scheduledCycleStart(n) ==
  /\ getChainOk(store[n])
  /\ cycles[n].started < MaxCycles
  /\ IF isSyncing[n]
     THEN UNCHANGED <<lockVars, cycles>>
     ELSE /\ isSyncing' = [isSyncing EXCEPT ![n] = TRUE]
          /\ syncTimeout' = [syncTimeout EXCEPT ![n] = TRUE]
          /\ cycles' = [cycles EXCEPT ![n] =
                          [running |-> @.running \cup {@.started + 1},
                           started |-> @.started + 1]]
          /\ calls' = [calls EXCEPT ![n]["timer"] = @ + 1]
          /\ UNCHANGED syncStatus
  /\ UNCHANGED <<sysVars, consVars, merkleVars, histVars, pruneVars, evictVars, bootVars,
                 addResult, chainRead, selfPeer, received>>

\* the syncChain call of cycle k returns or throws: finally clearSyncLock
scheduledCycleEnd(n, k) ==
  /\ k \in cycles[n].running
  /\ cycles' = [cycles EXCEPT ![n].running = @ \ {k}]
  /\ calls' = [calls EXCEPT ![n]["timer"] = @ - 1]
  /\ clearSyncLock(n)
  /\ store' = [store EXCEPT ![n] = SyncResult(store[n], NoPeersCall(n))]
  /\ UNCHANGED <<now, peers, lastBroadcastTime, net, sync, consVars, merkleVars, histVars,
                 pruneVars, evictVars, bootVars, addResult, chainRead, selfPeer, received, syncStatus>>

NextCycles ==
  \/ \E n \in Nodes : scheduledCycleStart(n)
  \/ \E n \in Nodes : \E k \in 1..MaxCycles : scheduledCycleEnd(n, k)
  \/ \E n \in Nodes : SyncLockTimeout(n)

SpecCycles == Init /\ [][NextCycles]_vars

(***************************************************************************)
(* The PeerDiscovery constructor on a node that appends blocks: the peers  *)
(* map is filled from peers.json, a list of node addresses which the nodes *)
(* started by start-node.js share, and the health check probes every entry *)
(* of the map.                                                             *)
(***************************************************************************)
\* the constructor has not run yet
NotLoaded == [health |-> "unloaded", chainLength |-> 0]

InitSeed ==
  /\ InitCons /\ InitLock /\ InitMerkle /\ InitPrune /\ InitBooted
  /\ registered = [n \in Nodes |-> {}]
  /\ lastSeen = [n \in Nodes |-> [p \in Others(n) |-> 1]]
  /\ unhealthySince = [n \in Nodes |-> [p \in Others(n) |-> 0]]
  /\ addResult = [n \in Nodes |-> "none"]
  /\ chainRead = [n \in Nodes |-> "none"]
  /\ selfPeer = [n \in Nodes |-> NotLoaded]
  /\ cycles = [n \in Nodes |-> NoCycles]
  /\ received = [n \in Nodes |-> NotReceived]
  /\ now = 1
  /\ store = [n \in Nodes |-> {RowOf(createGenesisBlock)}]
  /\ peers = [n \in Nodes |-> [p \in Others(n) |-> NewPeer]]
  /\ lastBroadcastTime = [n \in Nodes |-> 0]
  /\ net = {}
  /\ sync = [n \in Nodes |-> Idle]
  /\ orig = store
  /\ synced = {}

\* loadStaticPeers: one entry per address of staticPeers
loadStaticPeers(n, staticPeers) ==
  /\ selfPeer[n] = NotLoaded
  /\ registered' = [registered EXCEPT ![n] = staticPeers \ {n}]
  /\ selfPeer' = [selfPeer EXCEPT ![n] = IF n \in staticPeers THEN NewPeer ELSE NoEntry]
  /\ UNCHANGED <<sysVars, consVars, histVars, lockVars, merkleVars, pruneVars,
                 lastSeen, unhealthySince, bootVars, addResult, chainRead, cycles, received>>

\* checkPeerHealth on the entry under the node's own address: the node's
\* own GetBlockchain handler answers, or the call fails
checkSelfHealth(n) ==
  /\ selfPeer[n] \notin {NotLoaded, NoEntry}
  /\ \/ /\ GetBlockchainOk(n)
        /\ selfPeer' = [selfPeer EXCEPT ![n] =
                          [health |-> "healthy", chainLength |-> Len(GetBlockchain(n))]]
     \/ selfPeer' = [selfPeer EXCEPT ![n].health = "unhealthy"]
  /\ UNCHANGED <<sysVars, consVars, histVars, lockVars, merkleVars, pruneVars,
                 evictVars, bootVars, addResult, chainRead, cycles, received>>

NextSeed ==
  \/ \E n \in Nodes : \E staticPeers \in SUBSET Nodes : loadStaticPeers(n, staticPeers)
  \/ \E n \in Nodes : checkSelfHealth(n)
  \/ \E v \in Payloads : AddSensorData(1, v)
  \/ Tick

SpecSeed == InitSeed /\ [][NextSeed]_vars

TypeOK ==
  /\ now \in Times
  /\ \A n \in Nodes : Cardinality(store[n]) <= MaxChain
  /\ Cardinality(net) <= MaxNet

(***************************************************************************)
(* Properties.                                                             *)
(***************************************************************************)
\* I1-I4 on the chain a table holds
ChainInvariant(table) ==
  LET chain == ChainOf(table)
  IN  /\ Len(chain) > 0
      /\ chain[1] = createGenesisBlock
      /\ \A i \in 1..Len(chain) :
           /\ chain[i].index = i - 1
           /\ chain[i].hash = calculateHash(chain[i].index, chain[i].timestamp,
                                            chain[i].data, chain[i].previousHash)
           /\ (i > 1 => chain[i].previousHash = chain[i-1].hash)

\* C1: after initialisation and any sequence of local appends every node's
\* chain is non-empty, starts with the canonical genesis, has the indices
\* 0..n-1, every stored hash is the hash of the block's own contents and every
\* later block links to the hash of the block before it.
C1_AppendsKeepChainInvariants == \A n \in Nodes : ChainInvariant(store[n])

\* a node that has appended two blocks of its own
C1_Witness == \E n \in Nodes : Cardinality(store[n]) >= 3

\* a step in which AddBlock or ReceiveBlock handles request m and appends
DirectAppend(m) ==
  /\ AddBlock(m) \/ ReceiveBlock(m)
  /\ store'[m.to] # store[m.to]

\* a step in which the syncChain call a ReceiveBlock awaits completes and the
\* handler then appends
ResumedAppend(n, answered) ==
  /\ SyncFetchFrom(n, {answered})
  /\ sync[n].owner # NoBlock
  /\ Len(sync[n].todo) = 1
  /\ store'[n] # SyncResult(store[n], FetchNext(n, answered))

StoredAsReceived(table, block) ==
  /\ HasIdx(table, block.index)
  /\ RowAt(table, block.index) = WireRow(block)

\* C2: a block accepted from a peer through AddBlock or ReceiveBlock and
\* appended is stored as it was received: the row at its index has its
\* timestamp, data, previousHash and hash.
C2_StoredBlockIsReceivedBlock ==
  [][/\ \A m \in net : DirectAppend(m) => StoredAsReceived(store'[m.to], m.block)
     /\ \A n \in Nodes : \A answered \in BOOLEAN :
          ResumedAppend(n, answered) => StoredAsReceived(store'[n], sync[n].owner)]_vars

\* C3: AddBlock is idempotent: once AddBlock(B) has been handled, handling
\* AddBlock(B) again, at any later time, answers with success and leaves the
\* table as it is.
C3_AddBlockIdempotent ==
  [][\A m \in net :
       AddBlock(m) =>
         \A ts \in now..MaxTime :
           /\ AddBlockTable(store'[m.to], m.block, ts) = store'[m.to]
           /\ AddBlockOk(store'[m.to], m.block, ts)]_vars

IsNextBlock(table, block) ==
  /\ block.index = getLatestBlock(table).index + 1
  /\ block.previousHash = getLatestBlock(table).hash

\* C4: AddBlock and ReceiveBlock change the chain only for the immediate next
\* block: index = latest.index + 1 and previousHash = latest.hash at the moment
\* of the append.
C4_OnlyNextBlockAppended ==
  [][/\ \A m \in net : DirectAppend(m) => IsNextBlock(store[m.to], m.block)
     /\ \A n \in Nodes : \A answered \in BOOLEAN :
          ResumedAppend(n, answered) =>
            IsNextBlock(SyncResult(store[n], FetchNext(n, answered)), sync[n].owner)]_vars

\* the array resolveChainConflict returned
Returned == IF cResult = 0 THEN cLocal ELSE cRemotes[cResult]

\* the remote chains that pass validateChain
ValidRemotes == {k \in 1..Len(cRemotes) : validateChain(cRemotes[k])}

\* C5: resolveChainConflict returns the local chain whenever no valid remote
\* chain is strictly longer than the local chain, whatever the fingerprints.
C5_KeepLocalWhenAmongLongest ==
  (cResult # -1 /\ \A k \in ValidRemotes : Len(cRemotes[k]) <= Len(cLocal)) =>
    Hashes(Returned) = Hashes(cLocal)

\* C6: a chain other than the local one is returned only if it is the longest
\* valid candidate and beats the second longest candidate either by more than
\* 2 blocks or, at equal length, by its fingerprint.
C6_AdoptOnlyOnClearLead ==
  (cResult # -1 /\ cResult # 0) =>
    LET others == {cLocal} \cup {cRemotes[k] : k \in ValidRemotes \ {cResult}}
        second == CHOOSE c \in others : \A d \in others : Len(d) <= Len(c)
    IN  /\ Len(Returned) >= Len(second)
        /\ \/ Len(Returned) > Len(second) + 2
           \/ /\ Len(Returned) = Len(second)
              /\ \A d \in others :
                   Len(d) = Len(second) =>
                     calculateChainHash(Returned) > calculateChainHash(d)

\* the candidates of a consensus run: the local chain and the remote chains
\* that pass validateChain, as [id, chain]
Candidates ==
  {[id |-> 0, chain |-> cLocal]} \cup {[id |-> k, chain |-> cRemotes[k]] : k \in ValidRemotes}

TopCandidates ==
  {c \in Candidates : \A d \in Candidates : Len(d.chain) <= Len(c.chain)}

\* the longest candidates are exactly two remote chains
TwoRemotesTie == Cardinality(TopCandidates) = 2 /\ \A c \in TopCandidates : c.id # 0

\* C7: when the two longest valid candidates have equal length, the one with
\* the greater fingerprint is returned (stated for two remote chains, both
\* longer than the local chain).
C7_TieBreakByFingerprint ==
  (cResult # -1 /\ TwoRemotesTie) =>
    \A c \in TopCandidates :
      calculateChainHash(c.chain) <= calculateChainHash(Returned)

\* the remote chains in the opposite order
Reverse(seq) == [i \in 1..Len(seq) |-> seq[Len(seq) + 1 - i]]

ReturnedFor(localChain, remoteChains) ==
  LET id == resolveChainConflict(localChain, remoteChains)
  IN  IF id = 0 THEN localChain ELSE remoteChains[id]

\* C8: the chain resolveChainConflict returns does not depend on the order of
\* the remoteChains list.
C8_OrderIndependent ==
  (cResult # -1 /\ ValidRemotes = 1..Len(cRemotes)) =>
    Hashes(ReturnedFor(cLocal, Reverse(cRemotes))) = Hashes(Returned)

\* the remote chains a sync cycle of node n collects from the peers in todo
RECURSIVE FetchAll(_, _)
FetchAll(todo, remotes) ==
  IF todo = <<>> THEN remotes
  ELSE FetchAll(Tail(todo),
                IF RemoteChainValid(GetBlockchain(Head(todo)))
                THEN Append(remotes, GetBlockchain(Head(todo))) ELSE remotes)

\* the table of node n after one more complete sync cycle in which every
\* healthy peer answers
SyncOutcome(n) ==
  SyncResult(store[n], [Idle EXCEPT !.local = ChainOf(store[n]),
                                    !.remotes = FetchAll(getHealthyPeers(n), <<>>)])

\* no node is syncing and one more sync cycle changes no node's chain: from
\* here on no sync cycle changes anything
SyncFixpoint == \A n \in Nodes : sync[n].pc = "idle" /\ SyncOutcome(n) = store[n]

\* C9: with healthy connectivity and no further appends, repeated sync cycles
\* bring every node to the same chain: once every node has completed a sync
\* cycle and further sync cycles change nothing, every node has the same chain.
C9_EventualConsistency ==
  (synced = Nodes /\ SyncFixpoint) => \A n, m \in Nodes : store[n] = store[m]

\* two valid chains of equal length with the same genesis that differ from
\* index 1 on
Diverged(t1, t2) ==
  /\ Cardinality(t1) = Cardinality(t2)
  /\ Cardinality(t1) > 1
  /\ RowAt(t1, 0) = RowAt(t2, 0)
  /\ RowAt(t1, 1) # RowAt(t2, 1)

Fingerprint(table) == calculateChainHash(ChainOf(table))

\* C10: two nodes with equal-length chains that differ from index 1 on both
\* hold, once each has synced with the other, the chain with the greater
\* fingerprint.
C10_TieConvergesToGreaterFingerprint ==
  (synced = Nodes /\ Diverged(orig[1], orig[2])) =>
    \A n \in Nodes :
      store[n] = IF Fingerprint(orig[1]) > Fingerprint(orig[2]) THEN orig[1] ELSE orig[2]


\* the chain a syncChain call of node n decides for when every healthy peer
\* answers: 0 the local chain, k the k-th remote chain collected
SyncDecisionProc(n) ==
  [Idle EXCEPT !.local = ChainOf(store[n]), !.remotes = FetchAll(getHealthyPeers(n), <<>>)]

SyncDecision(n) == SyncChoice(SyncDecisionProc(n))

\* the peer serves a valid chain with the local genesis that is more than 2
\* blocks longer than the local chain
PeerFarAhead(n, p) ==
  /\ RemoteChainValid(convertChainToProto(ChainOf(orig[p])))
  /\ RowAt(orig[p], 0) = RowAt(orig[n], 0)
  /\ Cardinality(orig[p]) > Cardinality(orig[n]) + 2

\* C11: when the only healthy peer serves a valid chain with the local genesis
\* that is more than 2 blocks longer than the local chain, the local chain
\* after one completed syncChain call is the peer's chain, block for block.
C11_SyncAdoptsLongerPeerChain ==
  (1 \in synced /\ PeerFarAhead(1, 2)) =>
     Hashes(ChainOf(store[1])) = Hashes(ChainOf(orig[2]))

\* C12: sync never adopts a chain whose block 0 differs from the local
\* genesis: the chain a completed syncChain call decided for starts with the
\* local genesis, block 0 of the local chain is the genesis it was, and block
\* 1, if any, links to it.
C12_NoForeignGenesisAdopted ==
  1 \in synced =>
    /\ SyncDecision(1) # 0 =>
          SyncDecisionProc(1).remotes[SyncDecision(1)][1].hash = RowAt(orig[1], 0).hash
    /\ RowAt(store[1], 0) = RowAt(orig[1], 0)
    /\ HasIdx(store[1], 1) => RowAt(store[1], 1).previousHash = RowAt(store[1], 0).hash


CallsInProgress(n) == calls[n]["timer"] + calls[n]["post"]

\* C14: sync is single-flight: on one node at most one syncChain call is in
\* progress at any time, whichever way it was triggered.
C14_SyncSingleFlight == \A n \in Nodes : CallsInProgress(n) <= 1

\* C15: the sync lock is not held forever: whenever isSyncing is true it
\* becomes false again.
C15_SyncLockReleased == \A n \in Nodes : isSyncing[n] ~> ~isSyncing[n]

\* a scheduled sync holds the lock
C15_Witness == \E n \in Nodes : isSyncing[n] /\ calls[n]["timer"] > 0

\* C16: when syncChain runs while no peer is healthy it ends without an error
\* reaching its caller, and the local chain is what it was: on a node that
\* sees no healthy peer no POST /sync is answered with status 500 and the
\* table holds the blocks it held before.
C16_NoPeersSyncIsSilent ==
  \A n \in Nodes :
    getHealthyPeers(n) = <<>> =>
      /\ syncStatus[n] # 500
      /\ store[n] = orig[n]

\* a GetBlockchain of checkPeerHealth that fails or times out
FailedProbe(n, p) ==
  /\ checkPeerHealth(n, p)
  /\ peers'[n][p].health = "unhealthy"

\* a GetBlockchain of syncChain that fails or times out
FailedFetch(n) == SyncFetchFrom(n, {FALSE})

\* the failed answer was the last one a ReceiveBlock handler was waiting for
\* and the handler, resumed, appends its block
HandlerResumes(n) ==
  /\ sync[n].owner # NoBlock
  /\ Len(sync[n].todo) = 1
  /\ store'[n] = addBlock(store[n], JSONparse(sync[n].owner.data), now)

\* C17: an RPC that fails or times out never changes the local chain: after
\* a failed health probe, a failed GetBlockchain of syncChain or a lost
\* AddBlock / ReceiveBlock of a broadcast every table holds the blocks it
\* held before (apart from the append of a ReceiveBlock handler that resumes
\* in the same step because its syncChain call has ended).
C17_FailedRpcKeepsChain ==
  [][/\ \A n \in Nodes : \A p \in Others(n) : FailedProbe(n, p) => store' = store
     /\ \A n \in Nodes :
          FailedFetch(n) =>
            /\ \A k \in Others(n) : store'[k] = store[k]
            /\ store'[n] = store[n] \/ HandlerResumes(n)
     /\ \A m \in net : Lose(m) => store' = store]_vars

\* a node that holds several blocks has recorded a failed RPC to a peer
C17_Witness ==
  \E n \in Nodes : \E p \in Others(n) :
    /\ peers[n][p].health = "unhealthy"
    /\ Cardinality(store[n]) > 1

\* a step of POST /add-sensor-data on node n that starts a broadcast
BroadcastStarts(n) ==
  /\ AddSensorData(n, SensorPayload)
  /\ net' # net \/ lastBroadcastTime'[n] # lastBroadcastTime[n]

\* C18: broadcast rate limit: a broadcast started by a local append begins at
\* least BROADCAST_COOLDOWN after the previous one of the node began; an
\* append inside the cooldown window starts none.
C18_BroadcastRateLimit ==
  [][\A n \in Nodes :
       BroadcastStarts(n) => now - lastBroadcastTime[n] >= BROADCAST_COOLDOWN]_vars

\* node n has appended two blocks of its own within one cooldown window, the
\* first of which started a broadcast
C18_Witness ==
  \E n \in Nodes :
    /\ now = 1
    /\ lastBroadcastTime[n] = now
    /\ Cardinality(store[n]) > 2
    /\ \A k \in Others(n) : store[k] = orig[k]

\* the table when the one syncChain call a ReceiveBlock handler awaited has
\* ended with the given last answer
TableAfterSync(n, answered) == SyncResult(store[n], FetchNext(n, answered))

C20_MerkleProofsComplete == proofIndex # -1 => proofValid

\* a pruneChain call on node n that moves blocks to the archive
PruneStep(n) ==
  /\ pruneChain(n)
  /\ store'[n] # store[n]

\* a restoreArchivedBlocks call on node n whose archive holds blocks
RestoreStep(n) ==
  /\ restoreArchivedBlocks(n)
  /\ archive[n] # {}

\* C21: prune then restore is a round trip: restoreArchivedBlocks puts every
\* archived block back into the main table with its original fields, so that
\* a chain that was pruned and not touched since is again the original chain
\* and passes the chain validation.
C21_PruneRestoreRoundTrip ==
  [][\A n \in Nodes :
       RestoreStep(n) =>
         /\ store'[n] = store[n] \cup {BlockRow(a) : a \in archive[n]}
         /\ (store[n] \cup {BlockRow(a) : a \in archive[n]} = orig[n]) =>
               /\ getChainOk(store'[n])
               /\ validateChainSimple(convertChainToProto(ChainOf(store'[n])))]_vars

C23_ChainStartsWithGenesis ==
  \A n \in Nodes :
    /\ store[n] # {}
    /\ RowsAsc(store[n])[1] = RowOf(createGenesisBlock)

\* peer p has failed node n's probes for longer than unhealthyTimeout,
\* counting the probes of the health check that has just ended
UnhealthyBeyondTTL(n, p) ==
  /\ unhealthySince'[n][p] # 0
  /\ now - unhealthySince'[n][p] > unhealthyTimeout

\* C24: a peer is evicted exactly when it has been continuously unhealthy
\* for longer than unhealthyTimeout: a health check removes a registered peer
\* if and only if the peer's present run of failed probes has lasted longer
\* than that.
C24_EvictedExactlyAfterTTL ==
  [][\A n \in Nodes : \A p \in Others(n) :
       (healthCheck(n) /\ p \in registered[n]) =>
         (p \notin registered'[n] <=> UnhealthyBeyondTTL(n, p))]_vars

\* both initialize calls of node n have ended
Initialised(n) == \A c \in InitCallers : initPc[n][c] \in {"done", "failed"}

\* C25: initialising a node whose store is empty and which reaches no peer
\* ends with exactly one stored block, the canonical genesis block, the same
\* on every node, and neither of the two initialize calls fails.
C25_InitCreatesOneGenesis ==
  \A n \in Nodes :
    Initialised(n) =>
      /\ store[n] = {RowOf(createGenesisBlock)}
      /\ \A c \in InitCallers : initPc[n][c] = "done"

\* C26: a chain inconsistency is fatal: once getChain on a node has found an
\* index or hash-link inconsistency, every later append is refused and the
\* stored chain of that node does not change any more.
C26_InconsistencyIsFatal ==
  [][\A n \in Nodes : inconsistent[n] => store'[n] = store[n]]_vars

\* a syncChain call of node n is between its first read of the block table
\* and its replacement of the chain, before and after the step
SyncInProgress(n) == sync[n].pc = "fetch" /\ sync'[n].pc = "fetch"

\* C27: there is a single chain writer: append, chain replacement by sync
\* and the prune migration are mutually exclusive on a node, so that while a
\* syncChain call is between its first read and its last write of the block
\* table no append and no prune changes the table.
C27_SingleChainWriter ==
  [][\A n \in Nodes : SyncInProgress(n) => store'[n] = store[n]]_vars

\* C28: addBlock called with a payload that is not an object with a string
\* sensor_id, a numeric value and a string timestamp fails with an error
\* and leaves the store exactly as it was: no block is inserted.
C28_InvalidPayloadRejected ==
  [][\A n \in Nodes : \A data \in BlockDatas :
       (addBlockCall(n, data) /\ ~IsSensorData(data)) =>
          /\ addResult'[n] = "error"
          /\ store'[n] = store[n]]_vars

\* an addBlock call on node 1 has failed and the table of node 1 is the
\* empty table it started from
C28_Witness ==
  /\ addResult[1] = "error"
  /\ orig[1] = {}
  /\ store[1] = {}

\* the watchdog of node n's running sync cycle has fired: the cycle is still
\* in its syncChain call and the timer is no longer pending
WatchdogFired(n) == sync[n].pc = "fetch" /\ ~syncTimeout[n]

BroadcastSends(n, m) ==
  /\ store'[n] # store[n]
  /\ m \in net' \ net
  /\ m.to # n

\* C30: broadcastBlock(block) skips every healthy peer whose cached
\* chainLength is >= block.index and every healthy peer whose cached
\* chainLength is < block.index - 1: a request for the block goes to a peer
\* only when neither holds of the peer's record.
C30_BroadcastSkipRule ==
  [][\A n \in Nodes : \A m \in net' :
       BroadcastSends(n, m) =>
         /\ ~(peers[n][m.to].chainLength >= m.block.index)
         /\ ~(peers[n][m.to].chainLength < m.block.index - 1)]_vars

\* I1-I4 of a chain as it goes over the wire: the canonical genesis block
\* first, indices 0..n-1, every hash the hash of its block's contents, every
\* later block linked to the hash of the block before it
ChainInvariantsHold(chain) ==
  /\ Len(chain) > 0
  /\ chain[1] = convertChainToProto(<<createGenesisBlock>>)[1]
  /\ \A i \in 1..Len(chain) :
       /\ chain[i].index = i - 1
       /\ chain[i].hash = expectedHash(chain[i])
       /\ (i > 1 => chain[i].previousHash = chain[i-1].hash)

\* every block's Merkle inclusion proof verifies against the computed root
AllProofsVerify(chain) ==
  \A i \in 1..Len(chain) :
    verifyProof(chain[i].hash, generateProof(Hashes(chain), i - 1),
                buildTreeFromLeaves(Hashes(chain)))

\* C31: validateChainWithMerkle(chain) returns true only if the chain
\* satisfies I1-I4 and, for every chain of length >= 4, only if the Merkle
\* inclusion proof of every block verifies against the computed root.
C31_MerkleValidationIsSound ==
  [][\A chain \in ValidatorChains :
       (validateChainWithMerkleCall(chain) /\ chainValid' = "true") =>
          /\ ChainInvariantsHold(chain)
          /\ (Len(chain) >= 4 => AllProofsVerify(chain))]_vars

\* the hashes of the blocks of the chains of up to two blocks
SomeHashes == {r.hash : r \in UNION TablesUpTo(2)}

StoredChainIntact(table) ==
  LET chain == ChainOf(table)
  IN  \A i \in 1..Len(chain) :
        /\ chain[i].index = i - 1
        /\ chain[i].hash = calculateHash(chain[i].index, chain[i].timestamp,
                                         chain[i].data, chain[i].previousHash)
        /\ (i > 1 => chain[i].previousHash = chain[i-1].hash)

\* C33: getChain raises an inconsistency error whenever the stored blocks
\* violate I2, I3 or I4, the first block's index included, and otherwise
\* returns the stored blocks without raising.
C33_GetChainDetectsCorruption ==
  [][\A n \in Nodes :
       getChainCall(n) =>
         (chainRead'[n] = "raised" <=> ~StoredChainIntact(store[n]))]_vars

\* C34: the peer registry never contains the node's own address: seeding
\* from the static peer list leaves it out, so that a node never probes,
\* syncs from or broadcasts to itself.
C34_RegistryExcludesSelf ==
  \A n \in Nodes : selfPeer[n] \in {NotLoaded, NoEntry}

\* C35: in every sync the consensus rule ranks the local chain together with
\* the valid remote chains: the node's own chain as getChain returns it
\* always passes validateChain and so is always one of the candidates.
C35_LocalChainIsCandidate ==
  [][ResolveConflict => validateChain(cLocal)]_vars

\* C36: after a prune with pruneBelow = k the main chain stays readable:
\* getChain returns the remaining blocks k..n-1 without raising, each
\* remaining block's hash still matches its contents, and each remaining
\* block after the first still links to the hash of the block before it.
C36_PrunedChainReadable ==
  [][\A n \in Nodes :
       PruneStep(n) =>
         LET chain == ChainOf(store'[n])
         IN  /\ getChainOk(store'[n])
             /\ \A i \in 1..Len(chain) :
                  /\ chain[i].hash = calculateHash(chain[i].index, chain[i].timestamp,
                                                   chain[i].data, chain[i].previousHash)
                  /\ (i > 1 => chain[i].previousHash = chain[i-1].hash)]_vars

\* the blocks node n has stored since its running syncChain call read the
\* local chain
AppendedDuringSync(n) ==
  {r \in store[n] : \A i \in 1..Len(sync[n].local) : sync[n].local[i].index # r.index}

C38_CleanupSparesLaterCycle ==
  [][\A n \in Nodes : \A k \in cycles[n].running :
       (/\ k \notin cycles'[n].running
        /\ k < cycles[n].started
        /\ cycles[n].started \in cycles'[n].running) =>
          (isSyncing'[n] = isSyncing[n] /\ syncTimeout'[n] = syncTimeout[n])]_vars

\* C39: ReceiveBlock for a block with a valid hash whose index is already
\* stored returns success with the current chain and changes nothing,
\* whether or not the stored block has the received hash, and calls no
\* syncChain.
C39_DuplicateIndexIsNoOp ==
  \A n \in Nodes :
     received[n].duplicate => received[n].reply = "ok" /\ ~received[n].changed

\* the same on a node whose stored chain getChain accepts: the step of
\* ReceiveBlock for a request in flight
DuplicateIndexOnReadableChain ==
  [][\A m \in net :
       (/\ m.op = "ReceiveBlock"
        /\ m \notin net'
        /\ m.block.hash = expectedHash(m.block)
        /\ HasIdx(store[m.to], m.block.index)) =>
          /\ ReceiveBlockStep(store[m.to], m.block) = "ok"
          /\ store' = store
          /\ sync' = sync]_vars

====
